---- MODULE Spec2Model ----
(***************************************************************************)
(* A model of fasthash's generic core, src/fasthash/src/hasher.rs:         *)
(*   - StreamHasher::write_stream, the streaming feed adapter;             *)
(*   - the buffer-mode hashers generated by impl_hasher / impl_hasher_ext; *)
(*   - HasherExt::write_u128 / write_i128;                                 *)
(*   - Seed, Seed::gen and the From<Seed> conversions;                     *)
(*   - RandomState and the unit-struct factories of impl_fasthash.         *)
(* Each part has its own specification (SpecStream and SpecStreamLive,     *)
(* SpecHasher, SpecWide, SpecSeed and SpecThreads, SpecFactory); the       *)
(* variables of the other parts stay at their initial value.               *)
(***************************************************************************)
EXTENDS Integers, Sequences, FiniteSets, TLC

VARIABLES
  \* ---- write_stream: one call on a hasher and a byte source ----
  pc,       \* position in write_stream: "loop", "read", "tail", "done"
  buf,      \* let mut buf = [0_u8; 4096]
  len,      \* let mut len = 0
  pos,      \* let mut pos = 0
  ret,      \* let ret; the io::Result<usize> returned
  hbytes,   \* the bytes the hasher (self) has been given by write, in order
  writes,   \* the size of each write call made on the hasher, in order
  srcLen,   \* the source r: how many bytes it holds in total
  srcOff,   \* the source r: how many bytes it has delivered
  srcErr,   \* the source r: the non-retryable error it returned, or "none"
  shorts,   \* the source r: how many short reads it has made
  intr,     \* the source r: Interrupted results in a row at the current read
  sawIntr,  \* whether the call has seen an Interrupted result
  \* ---- a buffer-mode hasher and its caller ----
  hasher,   \* the $hasher struct: [alg, seed: Option<Seed>, bytes: Vec<u8>]
  ctor,     \* how the hasher was constructed: [alg, seed]
  wlog,     \* the argument of each write call made so far, in order
  outs,     \* the results of the finish / finish_ext calls since the last write
  finBefore, \* whether finish / finish_ext was called before the last write
  host,     \* the byte order of the host the program was built for
  wide,     \* the write_u128 / write_i128 calls made so far: [val, bytes]
  \* ---- Seed::gen, the Seed conversions and the hasher factories ----
  cache,    \* thread_local SEEDS of each thread: Uninit or the cached generator
  osReads,  \* how often each thread has read the OS entropy source
  emitted,  \* the Seeds that Seed::gen has returned on each thread, in order
  entropy,  \* what each thread read from the OS entropy source, or None
  s,        \* a Seed variable of the caller on the main thread, or None
  conv,     \* the conversions of s made since s was assigned: [ty, val]
  factory,  \* a BuildHasher: a RandomState<T>, a unit struct $hash, or None
  built     \* the hashers that factory.build_hasher() has returned, in order

streamVars == <<pc, buf, len, pos, ret, hbytes, writes,
                srcLen, srcOff, srcErr, shorts, intr, sawIntr>>

hasherVars == <<hasher, ctor, wlog, outs, finBefore, host, wide>>

seedVars == <<cache, osReads, emitted, entropy, s, conv>>

factoryVars == <<factory, built>>

vars == <<streamVars, hasherVars, seedVars, factoryVars>>

\* What an action of one part leaves alone: the variables of the others.
notStream == <<hasherVars, seedVars, factoryVars>>

notHasher == <<streamVars, seedVars, factoryVars>>

notSeed == <<streamVars, hasherVars>>

(***************************************************************************)
(* StreamHasher::write_stream                                              *)
(***************************************************************************)

\* buf.len() of [0_u8; 4096]
BufLen == 4096

\* The longest source holds MaxChunks full chunks and one byte.
MaxChunks == 2
\* A source makes at most MaxShort reads that return less than it could.
MaxShort == 2
\* A source returns at most MaxIntr Interrupted results in a row.
MaxIntr == 2

\* The source lengths N: 0, 1 and every multiple of the chunk size, one
\* less and one more.
Lengths ==
  {0, 1} \cup {k * BufLen + d : k \in 1..MaxChunks, d \in {-1, 0, 1}}

\* The sizes of a short read.
ShortSizes == {1, 2, BufLen - 1}

\* The i-th byte (from 1) of the source. Bytes one chunk apart differ, so
\* that a lost, repeated or misplaced chunk shows.
DataByte(i) == (i + 3 * ((i - 1) \div BufLen)) % 251

\* The first n bytes of the source.
Data(n) == [i \in 1..n |-> DataByte(i)]

\* io::ErrorKind, as far as write_stream tells the kinds apart.
ErrorKinds == {"Interrupted", "UnexpectedEof", "Other"}

Min(a, b) == IF a < b THEN a ELSE b

\* [0_u8; 4096]
ZeroBuf == [i \in 1..BufLen |-> 0]

\* r.read(&mut buf[pos..]) returning Ok(n): the source copies its next n
\* bytes to buf[pos..pos+n].
ReadInto(b, p, off, n) ==
  [i \in 1..BufLen |-> IF p < i /\ i <= p + n THEN DataByte(off + i - p)
                                              ELSE b[i]]

\* Hasher::write on the stream's hasher: the hasher is fed the bytes.
HasherWrite(h, bytes) == h \o bytes

\* Ok(len)
OkResult(n) == [kind |-> "Ok", len |-> n]

\* A variant of ErrResult that swallows the error and reports the count.
ErrResultWithOk(e, n) == [kind |-> "Ok", len |-> n]

\* Err(e): the error alone; an io::Result<usize> that is Err holds no usize.
ErrResult(e, n) == [kind |-> "Err", err |-> e]

\* A variant of IsRetryable that retries nothing.
IsRetryableNever(e) == FALSE

\* A variant of IsRetryable that retries after every error.
IsRetryableAlways(e) == TRUE

\* e.kind() == io::ErrorKind::Interrupted
IsRetryable(e) == e = "Interrupted"

\* A variant of TailWrite that drops the partial chunk.
TailWriteDropped(h, b, p) == h

\* A variant of TailWrite that writes the whole buffer: &buf[..]
TailWriteWhole(h, b, p) == IF p > 0 THEN HasherWrite(h, b) ELSE h

\* if pos > 0 { self.write(&buf[..pos]) }
TailWrite(h, b, p) == IF p > 0 THEN HasherWrite(h, SubSeq(b, 1, p)) ELSE h

\* A variant of FlushWrite that resets pos without the write.
FlushWriteSkipped(h, b, p) == h

\* if pos == buf.len() { self.write(&buf[..]); ... }
FlushWrite(h, b, p) == IF p = BufLen THEN HasherWrite(h, b) ELSE h

\* The top of the loop: a full chunk is written to the hasher.
LoopHead ==
  /\ UNCHANGED notStream
  /\ pc = "loop"
  /\ pc' = "read"
  /\ pos' = IF pos = BufLen THEN 0 ELSE pos
  /\ writes' = IF pos = BufLen THEN Append(writes, BufLen) ELSE writes
  /\ hbytes' = FlushWrite(hbytes, buf, pos)
  /\ UNCHANGED <<buf, len, ret, srcLen, srcOff, srcErr, shorts, intr, sawIntr>>

\* r.read(..) returns Ok(0): the source is at its end, or the slice it is
\* to fill is empty.
ReadEof ==
  /\ UNCHANGED notStream
  /\ pc = "read"
  /\ Min(BufLen - pos, srcLen - srcOff) = 0
  /\ ret' = OkResult(len)
  /\ pc' = "tail"
  /\ intr' = 0
  /\ UNCHANGED <<buf, len, pos, hbytes, writes, srcLen, srcOff, srcErr,
                 shorts, sawIntr>>

\* r.read(..) returns Ok(n), n > 0: all the slice and the source allow, or
\* a short read.
ReadOk ==
  /\ UNCHANGED notStream
  /\ pc = "read"
  /\ LET avail == Min(BufLen - pos, srcLen - srcOff)
     IN  \E n \in {avail} \cup ShortSizes :
           /\ 1 <= n /\ n <= avail
           /\ n = avail \/ shorts < MaxShort
           /\ len' = len + n
           /\ pos' = pos + n
           /\ srcOff' = srcOff + n
           /\ shorts' = IF n < avail THEN shorts + 1 ELSE shorts
           /\ buf' = ReadInto(buf, pos, srcOff, n)
  /\ pc' = "loop"
  /\ intr' = 0
  /\ UNCHANGED <<ret, hbytes, writes, srcLen, srcErr, sawIntr>>

\* r.read(..) returns Err(e): Interrupted is retried, any other error ends
\* the loop with ret = Err(e).
ReadErr ==
  /\ UNCHANGED notStream
  /\ pc = "read"
  /\ \E e \in ErrorKinds :
       /\ e = "Interrupted" => intr < MaxIntr
       /\ intr' = IF e = "Interrupted" THEN intr + 1 ELSE 0
       /\ sawIntr' = (sawIntr \/ e = "Interrupted")
       /\ srcErr' = IF e = "Interrupted" THEN srcErr ELSE e
       /\ IF IsRetryable(e)
          THEN pc' = "loop" /\ UNCHANGED ret
          ELSE pc' = "tail" /\ ret' = ErrResult(e, len)
  /\ UNCHANGED <<buf, len, pos, hbytes, writes, srcLen, srcOff, shorts>>

\* r.read(..) returns Err(Interrupted) once more, after MaxIntr such results
\* in a row: a source may go on like this without end. The count intr stays
\* at MaxIntr.
ReadInterruptedAgain ==
  /\ UNCHANGED notStream
  /\ pc = "read"
  /\ intr = MaxIntr
  /\ IF IsRetryable("Interrupted")
     THEN pc' = "loop" /\ UNCHANGED ret
     ELSE pc' = "tail" /\ ret' = ErrResult("Interrupted", len)
  /\ UNCHANGED <<buf, len, pos, hbytes, writes, srcLen, srcOff, srcErr,
                 shorts, intr, sawIntr>>

\* After the loop: the partial chunk is written and ret is returned.
AfterLoop ==
  /\ UNCHANGED notStream
  /\ pc = "tail"
  /\ hbytes' = TailWrite(hbytes, buf, pos)
  /\ writes' = IF pos > 0 THEN Append(writes, pos) ELSE writes
  /\ pc' = "done"
  /\ UNCHANGED <<buf, len, pos, ret, srcLen, srcOff, srcErr, shorts, intr,
                 sawIntr>>

(***************************************************************************)
(* Scalars. A u64 is modelled as a word of WordBits bits, a u32 as the low *)
(* half of a word and a u128 as two words, [hi, lo].                       *)
(***************************************************************************)

\* The width of the word that stands for a u64.
WordBits == 4

Modulus == 2 ^ WordBits

HalfModulus == 2 ^ (WordBits \div 2)

Words == 0..(Modulus - 1)

\* u128::low64, u128::high64, u128::from_parts(hi, lo)
Low64(v) == v.lo

High64(v) == v.hi

FromParts(h, l) == [hi |-> h, lo |-> l]

\* u64 as u32
AsU32(w) == w % HalfModulus

\* Option<T>: None and Some(x)
None == <<>>

Some(x) == <<x>>

(***************************************************************************)
(* The algorithm capability, FastHash, and the buffer-mode hashers that    *)
(* impl_hasher and impl_hasher_ext generate from it.                       *)
(***************************************************************************)

\* Two algorithms: "H64" has Value = u64 and its hasher comes from
\* impl_hasher; "H128" has Value = u128 and its hasher comes from
\* impl_hasher_ext. Both have Seed = u64.
Algs == {"H64", "H128"}

\* The bytes a caller writes.
ByteValues == {0, 255}

\* The hasher's buffer holds at most MaxBytes bytes.
MaxBytes == 3
\* One write call passes at most MaxWrite bytes.
MaxWrite == 2
\* At most MaxCalls write calls are made on a hasher.
MaxCalls == 3
\* At most MaxFinish finish / finish_ext calls are made between two writes.
MaxFinish == 2
\* Explicit seeds are 0..MaxSeed.
MaxSeed == 2

\* <Seed as Default>::default() of an integer seed type
DefaultSeed == 0

SeedValues == 0..MaxSeed

\* All byte sequences of length 0..n.
ByteSeqs(n) == UNION {[1..k -> ByteValues] : k \in 0..n}

\* The mixing of a stand-in algorithm: it depends on every byte, on the
\* order of the bytes and on the seed.
RECURSIVE Mix(_, _, _)
Mix(bytes, h, k) ==
  IF bytes = <<>> THEN h
  ELSE Mix(Tail(bytes), (h * k + Head(bytes) + 1) % Modulus, k)

\* FastHash::hash_with_seed of the two algorithms.
HashWithSeed(alg, bytes, seed) ==
  IF alg = "H64"
  THEN Mix(bytes, (seed + 1) % Modulus, 5)
  ELSE FromParts(Mix(bytes, (seed + 2) % Modulus, 3),
                 Mix(bytes, (seed + 1) % Modulus, 5))

\* A variant of Hash that passes the seed 1.
HashSeededOne(alg, bytes) == HashWithSeed(alg, bytes, 1)

\* FastHash::hash, the provided method.
Hash(alg, bytes) == HashWithSeed(alg, bytes, DefaultSeed)

\* $hasher::new()
New(alg) == [alg |-> alg, seed |-> None, bytes |-> <<>>]

\* $hasher::with_seed(seed)
WithSeed(alg, seed) == [alg |-> alg, seed |-> Some(seed), bytes |-> <<>>]

\* A variant of Write that forgets the seed.
WriteUnseeding(h, bytes) == [h EXCEPT !.bytes = @ \o bytes, !.seed = None]

\* A variant of Write that keeps the last write only.
WriteReplacing(h, bytes) == [h EXCEPT !.bytes = bytes]

\* Hasher::write of a generated hasher: self.bytes.extend_from_slice(bytes)
Write(h, bytes) == [h EXCEPT !.bytes = @ \o bytes]

\* A variant of Finalize whose unseeded branch hashes with the number of
\* bytes as the seed.
FinalizeUnseededByLength(h) ==
  IF h.seed = None THEN HashWithSeed(h.alg, h.bytes, Len(h.bytes))
                   ELSE HashWithSeed(h.alg, h.bytes, h.seed[1])

\* self.seed.map_or_else(|| $hash::hash(&self.bytes),
\*                       |seed| $hash::hash_with_seed(&self.bytes, seed))
Finalize(h) ==
  IF h.seed = None THEN Hash(h.alg, h.bytes)
                   ELSE HashWithSeed(h.alg, h.bytes, h.seed[1])

\* Hasher::finish of impl_hasher: the digest, .into() a u64 (Value = u64).
FinishOfPlain(h) == Finalize(h)

\* A variant of FinishOfExt that narrows to the high half.
FinishOfExtHigh(h) == High64(Finalize(h))

\* Hasher::finish of impl_hasher_ext: self.finalize().low64()
FinishOfExt(h) == Low64(Finalize(h))

Finish(h) == IF h.alg = "H64" THEN FinishOfPlain(h) ELSE FinishOfExt(h)

\* HasherExt::finish_ext of impl_hasher_ext: self.finalize()
FinishExt(h) == Finalize(h)

\* BufHasher::len and BufHasher::as_slice, through AsRef<[u8]>
BufLenOf(h) == Len(h.bytes)

AsSlice(h) == h.bytes

\* A variant of HasherAfterFinish that drains the buffer.
HasherAfterFinishDrained(h) == [h EXCEPT !.bytes = <<>>]

\* The hasher after finish(&self), finalize(&self) or finish_ext(&self):
\* the methods borrow the hasher shared and assign to none of its fields.
HasherAfterFinish(h) == h

\* hasher.write(b)
CallWrite ==
  /\ UNCHANGED notHasher
  /\ Len(wlog) < MaxCalls
  /\ \E b \in ByteSeqs(MaxWrite) :
       /\ Len(hasher.bytes) + Len(b) <= MaxBytes
       /\ hasher' = Write(hasher, b)
       /\ wlog' = Append(wlog, b)
  /\ outs' = <<>>
  /\ finBefore' = (finBefore \/ outs # <<>>)
  /\ UNCHANGED <<ctor, host, wide>>

\* hasher.finish()
CallFinish ==
  /\ UNCHANGED notHasher
  /\ Len(outs) < MaxFinish
  /\ outs' = Append(outs, [op |-> "finish", val |-> Finish(hasher)])
  /\ hasher' = HasherAfterFinish(hasher)
  /\ UNCHANGED <<ctor, wlog, finBefore, host, wide>>

\* hasher.finish_ext(), of a hasher generated by impl_hasher_ext
CallFinishExt ==
  /\ UNCHANGED notHasher
  /\ hasher.alg = "H128"
  /\ Len(outs) < MaxFinish
  /\ outs' = Append(outs, [op |-> "finish_ext", val |-> FinishExt(hasher)])
  /\ hasher' = HasherAfterFinish(hasher)
  /\ UNCHANGED <<ctor, wlog, finBefore, host, wide>>

(***************************************************************************)
(* HasherExt::write_u128 and write_i128. A byte of a wide value is half a  *)
(* word: a u64 is two bytes in memory, a u128 four.                        *)
(***************************************************************************)

\* At most MaxWide write_u128 / write_i128 calls are made on a hasher.
MaxWide == 2

\* cfg(target_endian): the byte order of the host the crate is built for.
Hosts == {"little", "big"}

\* The halves of the wide values a caller writes.
WideHalves == {0, 1, Modulus - 1}

\* The u128 values a caller writes.
WideValues == {FromParts(h, l) : h, l \in WideHalves}

\* The i128 values a caller writes: the high half is signed.
SignedValues == {[hi |-> h, lo |-> l] : h \in {-1, 1}, l \in {0, Modulus - 1}}

\* The bytes of a u64 as they lie in memory on a host of byte order o.
WordBytes(w, o) ==
  IF o = "little" THEN <<w % HalfModulus, w \div HalfModulus>>
                  ELSE <<w \div HalfModulus, w % HalfModulus>>

\* A variant of Transmute: the big-endian bytes on every host.
TransmuteToBigEndian(v, o) == WordBytes(v.hi, "big") \o WordBytes(v.lo, "big")

\* mem::transmute::<_, [u8; 16]>(i): the bytes of the u128 as they lie in
\* memory. The u128 is a #[repr(C)] struct of two u64, lo first on a
\* little-endian host and hi first on a big-endian host.
Transmute(v, o) ==
  IF o = "little" THEN WordBytes(v.lo, o) \o WordBytes(v.hi, o)
                  ELSE WordBytes(v.hi, o) \o WordBytes(v.lo, o)

\* i128::as_u128: the same bits, the high half read as unsigned.
AsU128(i) == FromParts((i.hi + Modulus) % Modulus, i.lo)

\* HasherExt::write_u128 on a host of byte order o
WriteU128(h, v, o) == Write(h, Transmute(v, o))

\* HasherExt::write_i128 on a host of byte order o
WriteI128(h, i, o) == WriteU128(h, AsU128(i), o)

\* The bytes that a call appended to the hasher's buffer.
Appended(before, after) ==
  SubSeq(after.bytes, Len(before.bytes) + 1, Len(after.bytes))

\* hasher.write_u128(v)
CallWriteU128 ==
  /\ UNCHANGED notHasher
  /\ Len(wide) < MaxWide
  /\ \E v \in WideValues :
       /\ hasher' = WriteU128(hasher, v, host)
       /\ wlog' = Append(wlog, Appended(hasher, hasher'))
       /\ wide' = Append(wide, [ty |-> "u128", val |-> v,
                                bytes |-> Appended(hasher, hasher')])
  /\ outs' = <<>>
  /\ finBefore' = (finBefore \/ outs # <<>>)
  /\ UNCHANGED <<ctor, host>>

\* hasher.write_i128(i)
CallWriteI128 ==
  /\ UNCHANGED notHasher
  /\ Len(wide) < MaxWide
  /\ \E i \in SignedValues :
       /\ hasher' = WriteI128(hasher, i, host)
       /\ wlog' = Append(wlog, Appended(hasher, hasher'))
       /\ wide' = Append(wide, [ty |-> "i128", val |-> i,
                                bytes |-> Appended(hasher, hasher')])
  /\ outs' = <<>>
  /\ finBefore' = (finBefore \/ outs # <<>>)
  /\ UNCHANGED <<ctor, host>>

(***************************************************************************)
(* Seed: a Xoroshiro128Rng, the generator xoroshiro128+ with a state of    *)
(* two words, <<s0, s1>>.                                                  *)
(***************************************************************************)

\* At most MaxGen Seed::gen calls (those of RandomState::new among them)
\* are made on a thread.
MaxGen == 2
\* At most MaxConv conversions are made of the Seed held in s.
MaxConv == 3
\* At most MaxBuilt hashers are built by the factory.
MaxBuilt == 2

Threads == {"t1", "t2"}

MainThread == "t1"

RECURSIVE Xor(_, _)
Xor(a, b) ==
  IF a = 0 THEN b
  ELSE IF b = 0 THEN a
  ELSE ((a + b) % 2) + 2 * Xor(a \div 2, b \div 2)

\* u64::rotate_left and <<, on a word; the shift counts of xoroshiro128+
\* (55, 14, 36) are taken modulo the width of the word.
Rotl(x, k) == ((x * (2 ^ k)) % Modulus) + (x \div (2 ^ (WordBits - k)))

Shl(x, k) == (x * (2 ^ k)) % Modulus

\* Rng::next_u64 of Xoroshiro128Rng: the draw and the advanced generator.
NextU64(rng) ==
  LET s0 == rng[1]
      s1 == Xor(rng[2], rng[1])
  IN  [val |-> (rng[1] + rng[2]) % Modulus,
       rng |-> <<Xor(Xor(Rotl(s0, 55 % WordBits), s1), Shl(s1, 14 % WordBits)),
                 Rotl(s1, 36 % WordBits)>>]

\* rng.gen::<[u64; 2]>() and rng.gen::<(u64, u64)>(): two draws, in order.
GenPair(rng) ==
  LET d1 == NextU64(rng)
      d2 == NextU64(d1.rng)
  IN  [val |-> <<d1.val, d2.val>>, rng |-> d2.rng]

\* rng.gen::<T>() for the scalar types: u32 is next_u64 as u32, u128 is
\* built from two draws, the first its high half.
Gen(ty, rng) ==
  LET d == NextU64(rng)
  IN  CASE ty = "u32"  -> [val |-> AsU32(d.val), rng |-> d.rng]
        [] ty = "u64"  -> d
        [] ty = "u128" -> LET p == GenPair(rng)
                          IN  [val |-> FromParts(p.val[1], p.val[2]),
                               rng |-> p.rng]
        [] ty = "pair" -> GenPair(rng)

SeedTypes == {"u32", "u64", "u128"}

\* Xoroshiro128Rng::from_seed([u64; 2])
RngFromSeed(arr) == <<arr[1], arr[2]>>

\* What Xoroshiro128Rng::new() can return: a generator seeded by the OS.
OsEntropy == (Words \X Words) \ {<<0, 0>>}

\* A variant of FromSeed whose u64 conversion skips a draw.
FromSeedU64OfNextDraw(ty, seed) ==
  IF ty = "u64" THEN Gen(ty, NextU64(seed).rng).val ELSE Gen(ty, seed).val

\* impl From<Seed> for $target: let mut rng = seed.0; rng.gen()
FromSeed(ty, seed) == Gen(ty, seed).val

\* A variant of SeedAfterFrom: from(&mut Seed), advancing the Seed itself.
SeedAfterFromAdvanced(ty, seed) == Gen(ty, seed).rng

\* The caller's Seed after seed.into(): Seed is Copy and from takes it by
\* value, so the generator that rng.gen() advances is a local copy.
SeedAfterFrom(ty, seed) == seed

\* A thread_local cell that has not been accessed yet: it holds no value.
Uninit == <<>>

\* A variant of NeedsInit that never uses the cache.
NeedsInitAlways(c) == TRUE

\* thread_local!: the initialiser Seed::new() runs on the first access.
NeedsInit(c) == c = Uninit

\* A variant of SeedGenResult that returns the generator as it was cached.
SeedGenResultOriginal(cached) ==
  [seed |-> cached, cache |-> RngFromSeed(GenPair(cached).val)]

\* The body of Seed::gen on the cached generator: rng is a copy of it,
\* rng.gen::<[u64; 2]>() draws twice from rng, the cache is re-seeded with
\* the two draws, and Seed(rng) is returned.
SeedGenResult(cached) ==
  LET p == GenPair(cached)
  IN  [seed |-> p.rng, cache |-> RngFromSeed(p.val)]

\* A variant of CacheSlot: one static cell that all threads use.
CacheSlotShared(t) == MainThread

\* thread_local!(static SEEDS: ...): the cell that thread t accesses is the
\* thread's own.
CacheSlot(t) == t

\* Seed::gen() on thread t, reading the OS entropy e if the cache is not
\* initialised yet.
GenOn(t, e) ==
  SeedGenResult(IF NeedsInit(cache[CacheSlot(t)]) THEN e
                                                  ELSE cache[CacheSlot(t)])

\* The OS entropy a Seed::gen call on thread t may read: any, if it
\* initialises the cache; otherwise none is read (the cache is used).
EntropyFor(t) ==
  IF NeedsInit(cache[CacheSlot(t)]) THEN OsEntropy ELSE {cache[CacheSlot(t)]}

GenEffect(t, e) ==
  LET r == GenOn(t, e)
      init == NeedsInit(cache[CacheSlot(t)])
  IN  /\ Len(emitted[t]) < MaxGen
      /\ cache' = [cache EXCEPT ![CacheSlot(t)] = r.cache]
      /\ osReads' = [osReads EXCEPT ![t] = IF init THEN @ + 1 ELSE @]
      /\ entropy' = [entropy EXCEPT ![t] = IF init THEN e ELSE @]
      /\ emitted' = [emitted EXCEPT ![t] = Append(@, r.seed)]

\* s = Seed::gen()
SeedGen(t) ==
  /\ UNCHANGED notSeed
  /\ \E e \in EntropyFor(t) :
       /\ GenEffect(t, e)
       /\ s' = Some(GenOn(t, e).seed)
  /\ conv' = <<>>
  /\ UNCHANGED factoryVars

\* let u: ty = s.into()
SeedConvert(ty) ==
  /\ UNCHANGED notSeed
  /\ s # None
  /\ Len(conv) < MaxConv
  /\ conv' = Append(conv, [ty |-> ty, val |-> FromSeed(ty, s[1])])
  /\ s' = Some(SeedAfterFrom(ty, s[1]))
  /\ UNCHANGED <<cache, osReads, emitted, entropy, factoryVars>>

\* The OS entropy words of the threads of SpecThreads are 0..MaxEntropy.
MaxEntropy == 3

ThreadEntropy == {e \in OsEntropy : e[1] <= MaxEntropy /\ e[2] <= MaxEntropy}

\* Seed::gen() called on thread t, one of several threads.
ThreadGen(t) ==
  /\ UNCHANGED notSeed
  /\ \E e \in EntropyFor(t) :
       /\ NeedsInit(cache[CacheSlot(t)]) => e \in ThreadEntropy
       /\ GenEffect(t, e)
  /\ UNCHANGED <<s, conv, factoryVars>>

(***************************************************************************)
(* The factories: RandomState<T> and the unit structs of impl_fasthash.    *)
(***************************************************************************)

\* The bytes of the key 37_i32, as Hash for i32 writes them.
KeyBytes == <<37, 0, 0, 0>>

\* BuildHasherExt::build_hasher_with_seed: $hasher::with_seed((*seed).into())
BuildHasherWithSeed(alg, seed) == WithSeed(alg, FromSeed("u64", seed))

\* BuildHasher::build_hasher of RandomState<T> and of the unit struct $hash
BuildHasher(f) ==
  IF f.kind = "random" THEN BuildHasherWithSeed(f.alg, f.seed)
                       ELSE New(f.alg)

\* A variant of FactoryAfterBuild that re-seeds the factory per hasher.
FactoryAfterBuildReseeded(f) ==
  IF f.kind = "random" THEN [f EXCEPT !.seed = SeedGenResult(@).cache] ELSE f

\* The factory after build_hasher(&self): *seed is copied into the
\* conversion, the factory keeps its Seed.
FactoryAfterBuild(f) ==
  IF f.kind = "random" THEN [f EXCEPT !.seed = SeedAfterFrom("u64", @)] ELSE f

\* RandomState::<T>::new() on thread t: seed: Seed::gen()
NewRandomState(t) ==
  /\ UNCHANGED notSeed
  /\ factory = None
  /\ \E e \in EntropyFor(t) :
       /\ GenEffect(t, e)
       /\ \E a \in Algs :
            factory' = [kind |-> "random", alg |-> a, seed |-> GenOn(t, e).seed]
  /\ UNCHANGED <<s, conv, built>>

\* $hash {}: the unit struct as a BuildHasher
NewFixedState ==
  /\ UNCHANGED notSeed
  /\ factory = None
  /\ \E a \in Algs : factory' = [kind |-> "fixed", alg |-> a]
  /\ UNCHANGED <<seedVars, built>>

\* factory.build_hasher()
CallBuildHasher ==
  /\ UNCHANGED notSeed
  /\ factory # None
  /\ Len(built) < MaxBuilt
  /\ built' = Append(built, BuildHasher(factory))
  /\ factory' = FactoryAfterBuild(factory)
  /\ UNCHANGED seedVars

\* 37.hash(&mut built[i]): the key is written to a hasher that was built
FeedKey ==
  /\ UNCHANGED notSeed
  /\ \E i \in 1..Len(built) :
       /\ built[i].bytes = <<>>
       /\ built' = [built EXCEPT ![i] = Write(@, KeyBytes)]
  /\ UNCHANGED <<seedVars, factory>>

(***************************************************************************)
(* The specifications                                                      *)
(***************************************************************************)

StreamInit ==
  /\ pc = "loop"
  /\ buf = ZeroBuf
  /\ len = 0
  /\ pos = 0
  /\ ret = [kind |-> "None"]
  /\ hbytes = <<>>
  /\ writes = <<>>
  /\ srcLen \in Lengths
  /\ srcOff = 0
  /\ srcErr = "none"
  /\ shorts = 0
  /\ intr = 0
  /\ sawIntr = FALSE
  /\ hasher = None
  /\ ctor = None
  /\ wlog = <<>>
  /\ outs = <<>>
  /\ finBefore = FALSE
  /\ host = "little"
  /\ wide = <<>>
  /\ cache = [t \in Threads |-> Uninit]
  /\ osReads = [t \in Threads |-> 0]
  /\ emitted = [t \in Threads |-> <<>>]
  /\ entropy = [t \in Threads |-> None]
  /\ s = None
  /\ conv = <<>>
  /\ factory = None
  /\ built = <<>>

HasherInit ==
  /\ \E a \in Algs :
       \/ hasher = New(a) /\ ctor = [alg |-> a, seed |-> None]
       \/ \E sd \in SeedValues :
            hasher = WithSeed(a, sd) /\ ctor = [alg |-> a, seed |-> Some(sd)]
  /\ wlog = <<>>
  /\ outs = <<>>
  /\ finBefore = FALSE
  /\ host = "little"
  /\ wide = <<>>
  /\ pc = "idle"
  /\ buf = <<>>
  /\ len = 0
  /\ pos = 0
  /\ ret = [kind |-> "None"]
  /\ hbytes = <<>>
  /\ writes = <<>>
  /\ srcLen = 0
  /\ srcOff = 0
  /\ srcErr = "none"
  /\ shorts = 0
  /\ intr = 0
  /\ sawIntr = FALSE
  /\ cache = [t \in Threads |-> Uninit]
  /\ osReads = [t \in Threads |-> 0]
  /\ emitted = [t \in Threads |-> <<>>]
  /\ entropy = [t \in Threads |-> None]
  /\ s = None
  /\ conv = <<>>
  /\ factory = None
  /\ built = <<>>

SeedInit ==
  /\ cache = [t \in Threads |-> Uninit]
  /\ osReads = [t \in Threads |-> 0]
  /\ emitted = [t \in Threads |-> <<>>]
  /\ entropy = [t \in Threads |-> None]
  /\ s = None
  /\ conv = <<>>
  /\ factory = None
  /\ built = <<>>
  /\ pc = "idle"
  /\ buf = <<>>
  /\ len = 0
  /\ pos = 0
  /\ ret = [kind |-> "None"]
  /\ hbytes = <<>>
  /\ writes = <<>>
  /\ srcLen = 0
  /\ srcOff = 0
  /\ srcErr = "none"
  /\ shorts = 0
  /\ intr = 0
  /\ sawIntr = FALSE
  /\ hasher = None
  /\ ctor = None
  /\ wlog = <<>>
  /\ outs = <<>>
  /\ finBefore = FALSE
  /\ host = "little"
  /\ wide = <<>>

WideInit ==
  /\ \E a \in Algs : hasher = New(a) /\ ctor = [alg |-> a, seed |-> None]
  /\ host \in Hosts
  /\ wlog = <<>>
  /\ outs = <<>>
  /\ finBefore = FALSE
  /\ wide = <<>>
  /\ pc = "idle"
  /\ buf = <<>>
  /\ len = 0
  /\ pos = 0
  /\ ret = [kind |-> "None"]
  /\ hbytes = <<>>
  /\ writes = <<>>
  /\ srcLen = 0
  /\ srcOff = 0
  /\ srcErr = "none"
  /\ shorts = 0
  /\ intr = 0
  /\ sawIntr = FALSE
  /\ cache = [t \in Threads |-> Uninit]
  /\ osReads = [t \in Threads |-> 0]
  /\ emitted = [t \in Threads |-> <<>>]
  /\ entropy = [t \in Threads |-> None]
  /\ s = None
  /\ conv = <<>>
  /\ factory = None
  /\ built = <<>>

StreamNext == LoopHead \/ ReadEof \/ ReadOk \/ ReadErr \/ AfterLoop

HasherNext == CallWrite \/ CallFinish \/ CallFinishExt

SeedNext == SeedGen(MainThread) \/ (\E ty \in SeedTypes : SeedConvert(ty))

StreamLiveNext ==
  \/ ReadErr
  \/ ReadInterruptedAgain
  \/ ReadEof
  \/ ReadOk
  \/ LoopHead
  \/ AfterLoop

WideNext == CallWriteU128 \/ CallWriteI128 \/ CallFinish

ThreadsNext == \E t \in Threads : ThreadGen(t)

FactoryNext ==
  \/ SeedGen(MainThread)
  \/ NewRandomState(MainThread)
  \/ NewFixedState
  \/ CallBuildHasher
  \/ FeedKey

\* One write_stream call, from entry to return.
SpecStream == StreamInit /\ [][StreamNext]_vars

\* One write_stream call on a source that may return Interrupted without
\* end. The call is one sequential thread that runs until it returns: a
\* step that can be taken is taken.
SpecStreamLive ==
  StreamInit /\ [][StreamLiveNext]_vars /\ WF_vars(StreamLiveNext)

\* One hasher, on a little-endian or a big-endian host, and the wide values
\* written to it.
SpecWide == WideInit /\ [][WideNext]_vars

\* Seed::gen called on several threads, in any interleaving.
SpecThreads == SeedInit /\ [][ThreadsNext]_vars

\* One buffer-mode hasher and the calls made on it.
SpecHasher == HasherInit /\ [][HasherNext]_vars

\* Seed::gen and the conversions of the Seed it returned, on one thread.
SpecSeed == SeedInit /\ [][SeedNext]_vars

\* A factory, the hashers it builds and the Seed::gen calls around it.
SpecFactory == SeedInit /\ [][FactoryNext]_vars

(***************************************************************************)
(* Claims about write_stream (checked under SpecStream)                    *)
(***************************************************************************)

\* C1: on a source that delivers N bytes and then end-of-source,
\* write_stream returns Ok(N) and the hasher has been given exactly those
\* N bytes in source order: the bytes a hasher holds after one direct write
\* of all N bytes, and so the same digest. For every N of Lengths and every
\* split of the bytes into short reads.
C1_StreamFeedsAllBytes ==
  (pc = "done" /\ srcErr = "none") =>
     /\ ret = OkResult(srcLen)
     /\ Len(hbytes) = srcLen
     /\ hbytes = HasherWrite(<<>>, Data(srcLen))

\* C1's case: a source of more than one chunk, not a multiple of the chunk
\* size, read with short reads, has been fed entirely.
C1_Witness ==
  /\ pc = "done"
  /\ ret.kind = "Ok"
  /\ srcLen > BufLen
  /\ srcLen % BufLen = 1
  /\ shorts = MaxShort
  /\ Len(writes) >= 2

\* C2 as stated: when a read fails with an error other than Interrupted,
\* the value returned to the caller holds the count of bytes processed so
\* far.
C2_ErrorCarriesCount ==
  (pc = "done" /\ srcErr # "none") =>
     ("len" \in DOMAIN ret /\ ret.len = len)

\* C2 as amended: when a read fails with an error other than Interrupted,
\* write_stream reads no more and returns Err(e) with that read's error e;
\* the returned value holds the error alone, no byte count.
C2_ErrorSurfacedAlone ==
  srcErr # "none" =>
     /\ pc \in {"tail", "done"}
     /\ ret = [kind |-> "Err", err |-> srcErr]
     /\ DOMAIN ret = {"kind", "err"}

\* C2's case: a read failed after more than one chunk had been read, with
\* a partial chunk pending, and write_stream has returned.
C2_Witness ==
  /\ pc = "done"
  /\ srcErr # "none"
  /\ len > BufLen
  /\ pos > 0

\* C3: a read that fails with Interrupted is retried and invisible: the
\* step changes neither len, pos, buf, the hasher nor ret, the loop goes
\* on with a read of the same slice, and the final result and the hasher's
\* bytes are those the source's other results determine, however many
\* Interrupted results there were and wherever.
C3_InterruptedInvisible ==
  /\ [][intr' = intr + 1 =>
          /\ pc' = "loop"
          /\ pos < BufLen
          /\ UNCHANGED <<len, pos, buf, hbytes, writes, ret, srcOff>>]_vars
  /\ [](pc = "done" =>
          /\ ret = IF srcErr = "none" THEN OkResult(srcLen)
                                      ELSE [kind |-> "Err", err |-> srcErr]
          /\ hbytes = Data(srcOff))

\* C3's case: a call that saw Interrupted results has returned Ok for a
\* source longer than a chunk.
C3_Witness ==
  /\ pc = "done"
  /\ sawIntr
  /\ ret = OkResult(srcLen)
  /\ srcLen > BufLen

(***************************************************************************)
(* Claims about the buffer-mode hashers (checked under SpecHasher)         *)
(***************************************************************************)

\* The concatenation of the arguments of the write calls, in call order.
RECURSIVE Concat(_)
Concat(log) == IF log = <<>> THEN <<>> ELSE Head(log) \o Concat(Tail(log))

\* The digest the algorithm gives for bytes under the hasher's
\* construction: hash_with_seed(bytes, sd) after with_seed(sd), hash(bytes)
\* after new().
DigestFor(c, bytes) ==
  IF c.seed = None THEN Hash(c.alg, bytes)
                   ELSE HashWithSeed(c.alg, bytes, c.seed[1])

\* C4: after any sequence of write calls w1..wk, finish returns the
\* algorithm's digest (as a u64) of w1 ++ ... ++ wk, seeded as the hasher
\* was constructed; so it equals finish after a single write of the
\* concatenation, for every split of the bytes, empty writes included.
C4_FinishOfConcat ==
  LET all == Concat(wlog)
      digest == DigestFor(ctor, all)
      asU64 == IF ctor.alg = "H64" THEN digest ELSE Low64(digest)
      fresh == IF ctor.seed = None THEN New(ctor.alg)
                                   ELSE WithSeed(ctor.alg, ctor.seed[1])
  IN  /\ Finish(hasher) = asU64
      /\ \A i \in 1..Len(outs) : outs[i].op = "finish" => outs[i].val = asU64
      /\ Finish(hasher) = Finish(Write(fresh, all))

\* C4's case: a seeded hasher has been written three times, once with no
\* bytes, and finish has been called.
C4_Witness ==
  /\ ctor.seed # None
  /\ Len(wlog) = 3
  /\ wlog[1] # <<>>
  /\ wlog[2] = <<>>
  /\ wlog[3] # <<>>
  /\ wlog[1] # wlog[3]
  /\ Len(outs) > 0
  /\ outs[1].op = "finish"

\* C10: for a hasher generated by impl_hasher_ext, after any writes and
\* for either seed choice, finish() is the low 64 bits of finish_ext() on
\* the same hasher state.
C10_FinishIsLowOfExt ==
  hasher.alg = "H128" =>
    /\ Finish(hasher) = Low64(FinishExt(hasher))
    /\ \A i, j \in 1..Len(outs) :
         (outs[i].op = "finish" /\ outs[j].op = "finish_ext")
           => outs[i].val = Low64(outs[j].val)

\* C10's case: finish and finish_ext have both been called on a written
\* hasher whose wide digest has different halves.
C10_Witness ==
  /\ hasher.alg = "H128"
  /\ hasher.bytes # <<>>
  /\ Len(outs) = 2
  /\ outs[1].op = "finish_ext"
  /\ outs[2].op = "finish"
  /\ High64(outs[1].val) # Low64(outs[1].val)

(***************************************************************************)
(* Claims about Seed (checked under SpecSeed and SpecFactory)              *)
(***************************************************************************)

\* The Seed that the last Seed::gen call on thread t returned.
LastEmitted(t) == emitted[t][Len(emitted[t])]

\* The scalar seed values of the Seeds emitted on thread t.
Scalars(t) == [i \in 1..Len(emitted[t]) |-> FromSeed("u64", emitted[t][i])]

\* C5: all hashers built by one factory have the same seed: those of a
\* RandomState the conversion of its Seed, those of a unit struct none;
\* so two of them fed the same bytes return the same finish value,
\* whatever is built, fed or generated in between.
C5_OneSeedPerFactory ==
  /\ \A i, j \in 1..Len(built) :
       /\ built[i].seed = built[j].seed
       /\ built[i].bytes = built[j].bytes => Finish(built[i]) = Finish(built[j])
  /\ \A i \in 1..Len(built) :
       built[i].seed = IF factory.kind = "random"
                       THEN Some(FromSeed("u64", factory.seed))
                       ELSE None

\* C5's case: a RandomState has built two hashers, both fed the key, with
\* Seed::gen calls made besides.
C5_Witness ==
  /\ factory # None
  /\ factory.kind = "random"
  /\ Len(built) = 2
  /\ built[1].bytes = KeyBytes
  /\ built[2].bytes = KeyBytes
  /\ Len(emitted[MainThread]) = MaxGen

\* C6 as stated: a second conversion of one Seed does not return what the
\* first conversion returned.
C6_SecondConversionDiffers ==
  \A i, j \in 1..Len(conv) :
    (i < j /\ conv[i].ty = conv[j].ty) => conv[i].val # conv[j].val

\* C6 as amended: converting a Seed advances a copy of its generator only:
\* the Seed is unchanged and repeated conversions to one type return the
\* same output.
C6_ConversionsRepeat ==
  s # None =>
    /\ s = Some(LastEmitted(MainThread))
    /\ \A i, j \in 1..Len(conv) :
         conv[i].ty = conv[j].ty => conv[i].val = conv[j].val

\* C6's case: one Seed has been converted to u64, to u32 and to u64 again.
C6_Witness ==
  /\ Len(conv) = 3
  /\ conv[1].ty = "u64"
  /\ conv[2].ty = "u32"
  /\ conv[3].ty = "u64"

\* C7: every conversion is a function of the Seed's generator state and
\* starts from that state: the u32 is the low half of the u64, the u64 is
\* the high half of the u128 (its first draw), and the Seed that was
\* converted is unchanged.
C7_ConversionsAgree ==
  s # None =>
    /\ s = Some(LastEmitted(MainThread))
    /\ \A i \in 1..Len(conv) :
         conv[i].val = Gen(conv[i].ty, LastEmitted(MainThread)).val
    /\ \A i, j \in 1..Len(conv) :
         /\ (conv[i].ty = "u32" /\ conv[j].ty = "u64")
              => conv[i].val = AsU32(conv[j].val)
         /\ (conv[i].ty = "u64" /\ conv[j].ty = "u128")
              => conv[i].val = High64(conv[j].val)

\* C7's case: one Seed has been converted to u32, u64 and u128, as in
\* test_seed.
C7_Witness ==
  /\ Len(conv) = 3
  /\ conv[1].ty = "u32"
  /\ conv[2].ty = "u64"
  /\ conv[3].ty = "u128"
  /\ conv[2].val # 0

\* C8: the scalar seed values of the Seeds that consecutive Seed::gen
\* calls on one thread return are pairwise distinct.
C8_ScalarsDistinct ==
  \A t \in Threads :
    \A i, j \in 1..Len(emitted[t]) :
      i < j => Scalars(t)[i] # Scalars(t)[j]

\* C9: however many Seed::gen and RandomState::new calls a thread makes,
\* it reads the OS entropy source at most once: when the first call
\* initialises the cache.
C9_EntropyReadOnce ==
  \A t \in Threads :
    /\ osReads[t] <= 1
    /\ osReads[t] = (IF emitted[t] = <<>> THEN 0 ELSE 1)
    /\ (cache[t] = Uninit) = (emitted[t] = <<>>)

\* C9's case: a thread has made MaxGen calls, one of them RandomState::new.
C9_Witness ==
  /\ Len(emitted[MainThread]) = MaxGen
  /\ MaxGen >= 2
  /\ factory # None
  /\ factory.kind = "random"
  /\ osReads[MainThread] = 1

(***************************************************************************)
(* More claims about the buffer-mode hashers (checked under SpecHasher)    *)
(***************************************************************************)

\* The hasher as it was constructed, before any call.
Fresh(c) ==
  IF c.seed = None THEN New(c.alg) ELSE WithSeed(c.alg, c.seed[1])

\* C11: finish and finish_ext are idempotent and free of side effects: the
\* calls of either made with no write in between return the same digest, a
\* call leaves the hasher (buffer and seed) as it was, and so the hasher is
\* at any time what the writes alone make of it: a later write and finish
\* give what they give had the earlier finish calls not been made.
C11_FinishIdempotent ==
  /\ [][Len(outs') > Len(outs) => hasher' = hasher]_vars
  /\ [](/\ \A i, j \in 1..Len(outs) :
             outs[i].op = outs[j].op => outs[i].val = outs[j].val
        /\ hasher = Write(Fresh(ctor), Concat(wlog))
        /\ \A i \in 1..Len(outs) :
             outs[i].op = "finish"
               => outs[i].val = Finish(Write(Fresh(ctor), Concat(wlog))))

\* C11's case: finish was called before the last write and twice after it,
\* on a hasher that holds bytes of both writes.
C11_Witness ==
  /\ finBefore
  /\ Len(wlog) = 2
  /\ wlog[1] # <<>>
  /\ wlog[2] # <<>>
  /\ Len(outs) = 2
  /\ outs[1].op = "finish"
  /\ outs[2].op = "finish"

\* The digest as the call op returns it from a hasher of algorithm alg:
\* finish of the wide algorithm returns the low half.
Returned(alg, op, digest) ==
  IF alg = "H128" /\ op = "finish" THEN Low64(digest) ELSE digest

\* C12: for every byte sequence b and both algorithms, hash(b) is
\* hash_with_seed(b, default_seed); so what finish and finish_ext return on
\* a hasher constructed without a seed, whose digest is hash(b), is the
\* digest hash_with_seed gives for the default seed.
C12_HashIsDefaultSeeded ==
  /\ \A a \in Algs :
       Hash(a, hasher.bytes) = HashWithSeed(a, hasher.bytes, DefaultSeed)
  /\ ctor.seed = None =>
       \A i \in 1..Len(outs) :
         outs[i].val =
           Returned(ctor.alg, outs[i].op,
                    HashWithSeed(ctor.alg, Concat(wlog), DefaultSeed))

\* C12's case: hash has been applied (by finish_ext, on an unseeded hasher)
\* to a buffer that is full, and another seed gives another digest.
C12_Witness ==
  /\ ctor.seed = None
  /\ Len(hasher.bytes) = MaxBytes
  /\ Len(outs) > 0
  /\ outs[1].op = "finish_ext"
  /\ outs[1].val # HashWithSeed(ctor.alg, hasher.bytes, 1)

(***************************************************************************)
(* Claims about write_u128 / write_i128 (checked under SpecWide)           *)
(***************************************************************************)

\* The u128 that a write_u128 / write_i128 call passed on.
WideValueOf(w) == IF w.ty = "i128" THEN AsU128(w.val) ELSE w.val

\* The number whose bytes, least significant first, are b: a byte is a
\* digit of base HalfModulus, the last one holds what is left.
RECURSIVE FromLeBytes(_)
FromLeBytes(b) ==
  IF Len(b) = 1 THEN b[1] ELSE b[1] + HalfModulus * FromLeBytes(Tail(b))

\* The sequence b reversed.
Reversed(b) == [k \in 1..Len(b) |-> b[Len(b) + 1 - k]]

\* C13 as stated: the bytes that write_u128 / write_i128 feed are the same
\* on a little-endian and on a big-endian host.
C13_BytesSameOnAllHosts ==
  \A k \in 1..Len(wide) :
    \A o \in Hosts : wide[k].bytes = Transmute(WideValueOf(wide[k]), o)

\* C13 as amended: write_u128 / write_i128 feed the value in one write, as
\* the bytes of its representation in the host's memory, in host byte
\* order: on a little-endian host the value's bytes from the least
\* significant one, on a big-endian host each 64-bit half from its most
\* significant byte, the high half first.
C13_BytesInHostOrder ==
  \A k \in 1..Len(wide) :
    LET v == WideValueOf(wide[k])
        b == wide[k].bytes
    IN  /\ Len(b) = 4
        /\ host = "little" =>
             /\ FromLeBytes(SubSeq(b, 1, 2)) = Low64(v)
             /\ FromLeBytes(SubSeq(b, 3, 4)) = High64(v)
        /\ host = "big" =>
             /\ FromLeBytes(Reversed(SubSeq(b, 1, 2))) = High64(v)
             /\ FromLeBytes(Reversed(SubSeq(b, 3, 4))) = Low64(v)
        /\ \E j \in 1..Len(wlog) : wlog[j] = b
        /\ Len(hasher.bytes) = 4 * Len(wide)

\* C13's case: on a big-endian host a u128 and then a negative i128 have
\* been written whose bytes are not the same in both orders.
C13_Witness ==
  /\ host = "big"
  /\ Len(wide) = 2
  /\ wide[1].ty = "u128"
  /\ wide[2].ty = "i128"
  /\ wide[2].val.hi < 0
  /\ \A k \in 1..2 : wide[k].bytes # Reversed(wide[k].bytes)

(***************************************************************************)
(* Claims about Seed::gen's cache (checked under SpecThreads and SpecSeed) *)
(***************************************************************************)

\* The Seeds that n Seed::gen calls return, one after the other, when the
\* cache holds the generator c before the first of them.
RECURSIVE SeedsFrom(_, _)
SeedsFrom(c, n) ==
  IF n = 0 THEN <<>>
  ELSE <<SeedGenResult(c).seed>> \o SeedsFrom(SeedGenResult(c).cache, n - 1)

\* The cache after these n calls.
RECURSIVE CacheAfter(_, _)
CacheAfter(c, n) ==
  IF n = 0 THEN c ELSE CacheAfter(SeedGenResult(c).cache, n - 1)

\* C14: the cached generator is per thread and never shared: in every
\* interleaving, a Seed::gen call on one thread leaves the cache (and the
\* Seeds and entropy reads) of every other thread as they were, and the
\* Seeds a thread has received and its cache are those that the thread's
\* own entropy and the number of its own calls give.
C14_CachePerThread ==
  /\ [][\A t \in Threads :
          emitted'[t] # emitted[t] =>
            \A u \in Threads \ {t} :
              /\ cache'[u] = cache[u]
              /\ emitted'[u] = emitted[u]
              /\ osReads'[u] = osReads[u]
              /\ entropy'[u] = entropy[u]]_vars
  /\ [](\A t \in Threads :
          IF emitted[t] = <<>>
          THEN cache[t] = Uninit /\ entropy[t] = None
          ELSE /\ entropy[t] # None
               /\ emitted[t] = SeedsFrom(entropy[t], Len(emitted[t]))
               /\ cache[t] = CacheAfter(entropy[t], Len(emitted[t])))

\* C14's case: two threads have each made MaxGen calls, from different
\* entropy, and received different Seeds.
C14_Witness ==
  /\ \A t \in Threads : Len(emitted[t]) = MaxGen
  /\ entropy["t1"] # entropy["t2"]
  /\ emitted["t1"][MaxGen] # emitted["t2"][MaxGen]
  /\ cache["t1"] # cache["t2"]

\* The generator that a Seed::gen step on thread t found in the cache: the
\* cached one, or what the initialiser read from the OS on the first access.
CachedBefore(t) == IF cache[t] = Uninit THEN entropy'[t] ELSE cache[t]

\* C15 as stated: a Seed::gen call replaces the cache with a generator
\* seeded from two draws of a copy and returns a Seed wrapping the
\* generator that was cached before the call, not advanced by the draws.
C15_ReturnsCachedState ==
  [][\A t \in Threads :
       emitted'[t] # emitted[t] =>
         /\ cache'[t] = RngFromSeed(GenPair(CachedBefore(t)).val)
         /\ emitted'[t] = Append(emitted[t], CachedBefore(t))]_vars

\* C15 as amended: a Seed::gen call reads the cached generator into a copy,
\* takes two 64-bit draws from the copy, replaces the cache with a
\* generator seeded from the two draws, and returns a Seed wrapping the
\* copy, which the two draws have advanced: the state after the second
\* draw, not the state that was cached before the call.
C15_ReturnsAdvancedCopy ==
  [][\A t \in Threads :
       emitted'[t] # emitted[t] =>
         LET d1 == NextU64(CachedBefore(t))
             d2 == NextU64(d1.rng)
         IN  /\ cache'[t] = <<d1.val, d2.val>>
             /\ emitted'[t] = Append(emitted[t], d2.rng)
             /\ s' = Some(d2.rng)]_vars

\* C15's case: two calls have been made and neither returned the generator
\* that was cached before it.
C15_Witness ==
  /\ Len(emitted[MainThread]) = 2
  /\ emitted[MainThread][1] # entropy[MainThread]
  /\ emitted[MainThread][2] # CacheAfter(entropy[MainThread], 1)
  /\ s = Some(emitted[MainThread][2])

(***************************************************************************)
(* More claims about write_stream (checked under SpecStream and            *)
(* SpecStreamLive)                                                         *)
(***************************************************************************)

\* C16: when write_stream ends with a read failure that is not retried,
\* the hasher holds exactly the bytes that the reads before the failure
\* returned, all of them and in source order, those of the partly filled
\* last chunk included, and nothing else.
C16_FailureKeepsBytesRead ==
  (pc = "done" /\ srcErr # "none") =>
     /\ ret.kind = "Err"
     /\ Len(hbytes) = len
     /\ len = srcOff
     /\ \A i \in 1..len : hbytes[i] = DataByte(i)

\* C16's case: the read failed after a full chunk and a short read, with
\* bytes left in the source, and write_stream has returned.
C16_Witness ==
  /\ pc = "done"
  /\ srcErr = "Other"
  /\ srcOff > BufLen
  /\ pos \in ShortSizes
  /\ srcOff < srcLen
  /\ Len(writes) = 2

\* C17 as stated: every write_stream call on a source that holds finitely
\* many bytes returns, whatever short reads and Interrupted results the
\* source produces.
C17_AlwaysReturns == <>(pc = "done")

\* C17 as amended: a write_stream call on a source that holds finitely many
\* bytes returns unless from some read on the source answers every read
\* with Interrupted; the writes it makes on the hasher are bounded by the
\* input length, at most one per chunk begun.
C17_ReturnsUnlessInterruptedForever ==
  /\ <>(pc = "done") \/ <>[](pc \in {"loop", "read"} /\ intr = MaxIntr)
  /\ [](Len(writes) <= srcLen \div BufLen + 1)

\* C17's case: a call on the longest source, with short reads and
\* Interrupted results on the way, has returned after reading it all.
C17_Witness ==
  /\ pc = "done"
  /\ srcErr = "none"
  /\ srcLen = MaxChunks * BufLen + 1
  /\ srcOff = srcLen
  /\ shorts = MaxShort
  /\ sawIntr
  /\ Len(writes) = MaxChunks + 1

(***************************************************************************)
(* Claims about write and the buffer (checked under SpecHasher)            *)
(***************************************************************************)

\* The number of bytes in the arguments of the write calls.
RECURSIVE TotalLen(_)
TotalLen(log) == IF log = <<>> THEN 0 ELSE Len(Head(log)) + TotalLen(Tail(log))

\* C18: write only appends: after write(b) the buffer is the buffer before
\* followed by b, the bytes before and the seed choice are as they were;
\* the seed choice is at any time the one of the construction; and
\* BufHasher::len and as_slice report the total number and the
\* concatenation, in call order, of all bytes written.
C18_WriteOnlyAppends ==
  /\ [][wlog' # wlog =>
          /\ hasher'.bytes = hasher.bytes \o wlog'[Len(wlog')]
          /\ SubSeq(hasher'.bytes, 1, Len(hasher.bytes)) = hasher.bytes
          /\ hasher'.seed = hasher.seed
          /\ hasher'.alg = hasher.alg
          /\ BufLenOf(hasher') = BufLenOf(hasher) + Len(wlog'[Len(wlog')])]_vars
  /\ [](/\ hasher.seed = ctor.seed
        /\ BufLenOf(hasher) = TotalLen(wlog)
        /\ AsSlice(hasher) = Concat(wlog))

\* C18's case: three writes, one of them empty, have filled the buffer of
\* a seeded hasher, with a finish call before the last write.
C18_Witness ==
  /\ ctor.seed # None
  /\ Len(wlog) = 3
  /\ \E k \in 1..3 : wlog[k] = <<>>
  /\ BufLenOf(hasher) = MaxBytes
  /\ finBefore
  /\ outs = <<>>

(***************************************************************************)
(* The invariants of write_stream's loop (checked under SpecStream)        *)
(***************************************************************************)

\* C19: throughout write_stream 0 <= pos <= 4096 and len is the number of
\* bytes written to the hasher plus pos; a read is issued with pos < 4096,
\* so that a result of Ok(0) means the source is at its end; every write
\* made in the loop is of 4096 bytes, and the one write after the loop, if
\* any, is of pos bytes, between 1 and 4096.
C19_ChunkInvariants ==
  /\ 0 <= pos /\ pos <= BufLen
  /\ pc \in {"loop", "read", "tail"} => len = Len(hbytes) + pos
  /\ pc = "done" => len = Len(hbytes)
  /\ pc = "read" => pos < BufLen
  /\ (pc \in {"tail", "done"} /\ ret.kind = "Ok") => srcOff = srcLen
  /\ \A i \in 1..Len(writes) :
       IF pc = "done" /\ pos > 0 /\ i = Len(writes)
       THEN writes[i] = pos /\ 1 <= writes[i] /\ writes[i] <= BufLen
       ELSE writes[i] = BufLen

\* C19's case: a call has returned after writing a full chunk in the loop
\* and, after short reads, a partial chunk after the loop.
C19_Witness ==
  /\ pc = "done"
  /\ Len(writes) = 2
  /\ writes[1] = BufLen
  /\ writes[2] \in ShortSizes
  /\ shorts > 0
  /\ len = BufLen + writes[2]

(***************************************************************************)
(* new() and with_seed(Default::default()) (checked under SpecHasher)      *)
(***************************************************************************)

\* The results of finish and of finish_ext on hasher h.
Observed(h) ==
  [finish |-> Finish(h),
   finish_ext |-> IF h.alg = "H128" THEN FinishExt(h) ELSE None]

\* C20: a hasher built with new(), which stores no seed, and one built
\* with with_seed(Default::default()) are observationally equivalent: after
\* the same writes both return the same finish and finish_ext values. So
\* the hasher at hand, if it was built in one of the two ways, returns
\* (and has returned) what the hasher built the other way returns after
\* the same writes.
C20_NewIsDefaultSeeded ==
  LET a == ctor.alg
      byNew == Write(New(a), Concat(wlog))
      byDefault == Write(WithSeed(a, DefaultSeed), Concat(wlog))
  IN  /\ Observed(byNew) = Observed(byDefault)
      /\ (ctor.seed = None \/ ctor.seed = Some(DefaultSeed)) =>
           /\ Observed(hasher) = Observed(byNew)
           /\ Observed(hasher) = Observed(byDefault)
           /\ \A i \in 1..Len(outs) :
                /\ outs[i].val = Observed(byNew)[outs[i].op]
                /\ outs[i].val = Observed(byDefault)[outs[i].op]

\* C20's case: a hasher built with new() has been written twice and both
\* finish and finish_ext were called; another seed gives another digest.
C20_Witness ==
  /\ ctor.seed = None
  /\ hasher.alg = "H128"
  /\ Len(wlog) = 2
  /\ Len(hasher.bytes) > 1
  /\ Len(outs) = 2
  /\ outs[1].op = "finish"
  /\ outs[2].op = "finish_ext"
  /\ Observed(hasher) # Observed(Write(WithSeed("H128", 1), Concat(wlog)))

====
